---- MODULE Spec2Model ----
(***************************************************************************)
(* A model of the TOAST tiling engine of toasty (src/toasty/toast.py):     *)
(* the tile-position algebra, the pruned deepest-first traversal           *)
(* (iter_corners), the sampling and merge pipeline (iter_tiles with its    *)
(* trickle-up reducer) and the orchestrator (toast).                       *)
(*                                                                         *)
(* iter_tiles is a generator.  One run is a walk over the positions of its *)
(* body: "iter" is the head of its for loop, "trickle" the entry of a call *)
(* of _trickle_up, "register" the part of that call after its yield,       *)
(* "merge" the part after the fourth quadrant was registered, and "yield"  *)
(* the moment the consumer holds a (pth, img) pair.                        *)
(***************************************************************************)
EXTENDS Integers, Sequences, FiniteSets, TLC

VARIABLES
    depth,            \* iter_tiles: the maximum depth to tile to
    merge,            \* iter_tiles: "default" (True), "none" (False), "custom" or "raising" (callables)
    base_level_only,  \* iter_tiles: only the bottom level is created
    top,              \* iter_tiles: the topmost layer to create
    tile_filter,      \* iter_tiles: the pruning predicate (a record, see TileFilter)
    data_sampler,     \* iter_tiles: a sampling function or a directory of tiles
    restart,          \* whether restart_dir is set
    disk,             \* the paths of the files present in restart_dir / base_dir
    dirs,             \* the directories present in base_dir
    todo,             \* what iter_corners has still to yield
    pc,               \* the position of the run in the code
    im,               \* _trickle_up: the image of the current call
    node,             \* _trickle_up: the position of the current call
    parents,          \* iter_tiles: the accumulator, parent position -> quadrant -> image
    cur,              \* the (pth, img) pair the consumer holds
    resume,           \* where the generator resumes after the pair was consumed
    emitted,          \* the pairs yielded so far, in order
    num,              \* toast: the counter of emitted tiles
    sampled,          \* history: the positions the sampling function was invoked for
    registered,       \* history: the (parent, quadrant) slots registered so far
    twice,            \* history: a slot was registered a second time
    aggregated,       \* history: the parents aggregated so far, in order
    mergeLog,         \* history: parent -> the quadrants, the mosaic and the result of its merge,
                      \* and whether the merge function raised
    failed,           \* toast: the paths whose persistence failed
    query             \* a traversal or a predicate on its own: its input and its result

\* the arguments of a run, which no step changes
args == <<depth, merge, base_level_only, top, tile_filter, data_sampler, restart>>

vars == <<args, disk, dirs, todo, pc, im, node, parents, cur, resume, emitted, num, sampled,
          registered, twice, aggregated, mergeLog, failed, query>>

-----------------------------------------------------------------------------
(* Bounds of the model.                                                    *)

\* the largest depth a run is started with
MaxDepth == 2

\* the side of a tile image in pixels (256 in the program)
TileSize == 1

-----------------------------------------------------------------------------
(* Positions and tiles.                                                    *)

Max(a, b) == IF a >= b THEN a ELSE b

RECURSIVE Pow2(_)
Pow2(k) == IF k <= 0 THEN 1 ELSE 2 * Pow2(k - 1)

RECURSIVE Pow4(_)
Pow4(k) == IF k <= 0 THEN 1 ELSE 4 * Pow4(k - 1)

\* namedtuple Pos(n, x, y)
Pos(n, x, y) == [n |-> n, x |-> x, y |-> y]

\* namedtuple Tile(pos, corners, increasing); the corners are computed by the
\* compiled helper mid and are carried only where a filter reads them
Tile(pos, increasing) == [pos |-> pos, increasing |-> increasing]

\* the positions of the pyramid down to level d
PosUpTo(d) == UNION {{Pos(n, x, y) : x \in 0..(Pow2(n) - 1), y \in 0..(Pow2(n) - 1)} : n \in 0..d}

\* the positions of level d
Level(d) == {Pos(d, x, y) : x \in 0..(Pow2(d) - 1), y \in 0..(Pow2(d) - 1)}

\* depth2tiles with the exponent one short
depth2tiles_short(d) == (Pow4(d) - 1) \div 3

depth2tiles(d) == (Pow4(d + 1) - 1) \div 3

\* _parent with the row of the parent lost
_parent_wrong(pos) == <<Pos(pos.n - 1, pos.x \div 2, 0), pos.x % 2, pos.y % 2>>

_parent(pos) == <<Pos(pos.n - 1, pos.x \div 2, pos.y \div 2), pos.x % 2, pos.y % 2>>

RECURSIVE is_subtile(_, _)
is_subtile(deeper_pos, shallower_pos) ==
    IF deeper_pos.n < shallower_pos.n THEN "ValueError"
    ELSE IF deeper_pos.n = shallower_pos.n
         THEN IF deeper_pos.x = shallower_pos.x /\ deeper_pos.y = shallower_pos.y
              THEN "True" ELSE "False"
         ELSE is_subtile(_parent(deeper_pos)[1], shallower_pos)

\* _div4 with the flag of the children turned over
_div4_flips(tile) ==
    LET n == tile.pos.n + 1
        x == tile.pos.x * 2
        y == tile.pos.y * 2
    IN  << Tile(Pos(n, x,     y    ), ~tile.increasing),
           Tile(Pos(n, x + 1, y    ), ~tile.increasing),
           Tile(Pos(n, x,     y + 1), ~tile.increasing),
           Tile(Pos(n, x + 1, y + 1), ~tile.increasing) >>

\* _div4 with the lower right child at the place of the lower left one
_div4_repeats(tile) ==
    LET n == tile.pos.n + 1
        x == tile.pos.x * 2
        y == tile.pos.y * 2
    IN  << Tile(Pos(n, x,     y    ), tile.increasing),
           Tile(Pos(n, x + 1, y    ), tile.increasing),
           Tile(Pos(n, x,     y + 1), tile.increasing),
           Tile(Pos(n, x,     y + 1), tile.increasing) >>

_div4(tile) ==
    LET n == tile.pos.n + 1
        x == tile.pos.x * 2
        y == tile.pos.y * 2
    IN  << Tile(Pos(n, x,     y    ), tile.increasing),
           Tile(Pos(n, x + 1, y    ), tile.increasing),
           Tile(Pos(n, x,     y + 1), tile.increasing),
           Tile(Pos(n, x + 1, y + 1), tile.increasing) >>

-----------------------------------------------------------------------------
(* Pruning predicates.  A predicate is a record: kind "none" is the        *)
(* default lambda t: True, "nxy" is nxy_tile_filter(layer, tx, ty), "quad" *)
(* is a predicate of the caller that rejects, at level layer, the tiles of *)
(* quadrant (1, 1) of their parent, and "all" rejects every tile.          *)

NoFilter == [kind |-> "none", layer |-> 0, tx |-> 0, ty |-> 0]

\* a sub-region predicate that accepts every tile
nxy_accept_all(f, tile) == TRUE

nxy_tile_filter(f, tile) ==
    LET regionLoc == Pos(f.layer, f.tx, f.ty)
        tileLoc == tile.pos
    IN  IF tileLoc.n > regionLoc.n THEN TRUE
        ELSE is_subtile(regionLoc, tileLoc) = "True"

TileFilter(f, tile) ==
    CASE f.kind = "none" -> TRUE
      [] f.kind = "nxy"  -> nxy_tile_filter(f, tile)
      [] f.kind = "quad" -> ~(tile.pos.n = f.layer /\ tile.pos.x % 2 = 1 /\ tile.pos.y % 2 = 1)
      [] f.kind = "all"  -> FALSE

-----------------------------------------------------------------------------
(* The traversal.                                                          *)

\* the traversal in prefix order: a tile before its children
RECURSIVE _prefix_corner(_, _, _, _)
_prefix_corner(tile, d, bottom_only, f) ==
    LET n == tile.pos.n
        ch == _div4(tile)
    IN  IF n > d THEN << >>
        ELSE IF ~TileFilter(f, tile) THEN << >>
        ELSE (IF n = d \/ ~bottom_only THEN <<tile>> ELSE << >>)
             \o _prefix_corner(ch[1], d, bottom_only, f)
             \o _prefix_corner(ch[2], d, bottom_only, f)
             \o _prefix_corner(ch[3], d, bottom_only, f)
             \o _prefix_corner(ch[4], d, bottom_only, f)

\* the traversal with the predicate asked only before the yield
RECURSIVE _postfix_corner_late(_, _, _, _)
_postfix_corner_late(tile, d, bottom_only, f) ==
    LET n == tile.pos.n
        ch == _div4(tile)
    IN  IF n > d THEN << >>
        ELSE _postfix_corner_late(ch[1], d, bottom_only, f)
             \o _postfix_corner_late(ch[2], d, bottom_only, f)
             \o _postfix_corner_late(ch[3], d, bottom_only, f)
             \o _postfix_corner_late(ch[4], d, bottom_only, f)
             \o (IF TileFilter(f, tile) /\ (n = d \/ ~bottom_only) THEN <<tile>> ELSE << >>)

RECURSIVE _postfix_corner(_, _, _, _)
_postfix_corner(tile, d, bottom_only, f) ==
    LET n == tile.pos.n
        ch == _div4(tile)
    IN  IF n > d THEN << >>
        ELSE IF ~TileFilter(f, tile) THEN << >>
        ELSE _postfix_corner(ch[1], d, bottom_only, f)
             \o _postfix_corner(ch[2], d, bottom_only, f)
             \o _postfix_corner(ch[3], d, bottom_only, f)
             \o _postfix_corner(ch[4], d, bottom_only, f)
             \o (IF n = d \/ ~bottom_only THEN <<tile>> ELSE << >>)

\* the list todo without the tile (1, 0, 1)
level1_todo_short ==
    << Tile(Pos(1, 0, 0), TRUE),
       Tile(Pos(1, 1, 0), FALSE),
       Tile(Pos(1, 1, 1), TRUE),
       Tile(Pos(1, 1, 1), TRUE) >>

level1_todo ==
    << Tile(Pos(1, 0, 0), TRUE),
       Tile(Pos(1, 1, 0), FALSE),
       Tile(Pos(1, 1, 1), TRUE),
       Tile(Pos(1, 0, 1), FALSE) >>

\* the tiles of the traversal in raster order: by row, then by column
iter_corners_raster(d, bottom_only, f) ==
    SortSeq(_postfix_corner(level1_todo[1], d, bottom_only, f)
            \o _postfix_corner(level1_todo[2], d, bottom_only, f)
            \o _postfix_corner(level1_todo[3], d, bottom_only, f)
            \o _postfix_corner(level1_todo[4], d, bottom_only, f),
            LAMBDA a, b : a.pos.y < b.pos.y \/ (a.pos.y = b.pos.y /\ a.pos.x < b.pos.x))

iter_corners(d, bottom_only, f) ==
    _postfix_corner(level1_todo[1], d, bottom_only, f)
    \o _postfix_corner(level1_todo[2], d, bottom_only, f)
    \o _postfix_corner(level1_todo[3], d, bottom_only, f)
    \o _postfix_corner(level1_todo[4], d, bottom_only, f)

-----------------------------------------------------------------------------
(* Images.  An image is a matrix of pixels of an unsigned 8-bit type, or   *)
(* None (no data).                                                         *)

None == [data |-> FALSE, px |-> << >>]

\* an image of the given shape (rows, columns) with every pixel v
Full(shape, v) == [data |-> TRUE, px |-> [i \in 1..shape[1] |-> [j \in 1..shape[2] |-> v]]]

\* ndarray.shape
Shape(img) == IF Len(img.px) = 0 THEN << >> ELSE <<Len(img.px), Len(img.px[1])>>

\* np.zeros(imgShape, dtype=np.uint8)
Zeros(shape) == Full(shape, 0)

\* the mosaic stacked by columns: ul above ur, beside bl above br
MosaicByColumns(ul, ur, bl, br) ==
    [data |-> TRUE,
     px |-> [i \in 1..Len(ul.px) |-> ul.px[i] \o bl.px[i]]
            \o [i \in 1..Len(ur.px) |-> ur.px[i] \o br.px[i]]]

\* np.vstack((np.hstack((ul, ur)), np.hstack((bl, br))))
Mosaic(ul, ur, bl, br) ==
    [data |-> TRUE,
     px |-> [i \in 1..Len(ul.px) |-> ul.px[i] \o ur.px[i]]
            \o [i \in 1..Len(bl.px) |-> bl.px[i] \o br.px[i]]]

\* _default_merge that takes the left column of each 2x2 block twice
_default_merge_left(mosaic) ==
    [data |-> TRUE,
     px |-> [i \in 1..(Len(mosaic.px) \div 2) |->
               [j \in 1..(Len(mosaic.px[1]) \div 2) |->
                  ((mosaic.px[2*i - 1][2*j - 1] + mosaic.px[2*i][2*j - 1]
                    + mosaic.px[2*i - 1][2*j - 1] + mosaic.px[2*i][2*j - 1]) \div 4) % 256]]]

\* the mean of the four pixels of each 2x2 block, as floats, cast back to the
\* element type of the mosaic (truncation)
_default_merge(mosaic) ==
    [data |-> TRUE,
     px |-> [i \in 1..(Len(mosaic.px) \div 2) |->
               [j \in 1..(Len(mosaic.px[1]) \div 2) |->
                  ((mosaic.px[2*i - 1][2*j - 1] + mosaic.px[2*i][2*j - 1]
                    + mosaic.px[2*i - 1][2*j] + mosaic.px[2*i][2*j]) \div 4) % 256]]]

\* a reducer of the caller: it keeps the upper left pixel of each 2x2 block
custom_merge(mosaic) ==
    [data |-> TRUE,
     px |-> [i \in 1..(Len(mosaic.px) \div 2) |->
               [j \in 1..(Len(mosaic.px[1]) \div 2) |-> mosaic.px[2*i - 1][2*j - 1]]]]

\* (merge or _default_merge)(mosaic)
ApplyMerge(m, mosaic) == IF m = "custom" THEN custom_merge(mosaic) ELSE _default_merge(mosaic)

\* the call of the merge function raises: the reducer "raising" of the caller
\* raises on every mosaic
Raises(m, mosaic) == m = "raising"

-----------------------------------------------------------------------------
(* Paths.  A relative path is its two directories and the two numbers of  *)
(* its file name: "%i/%i/%i_%i.png".                                       *)

MkPath(d1, d2, f1, f2) == [dir |-> <<d1, d2>>, file |-> <<f1, f2>>]

\* the path of _trickle_up with x before y
trickle_pth_xy(pos) == MkPath(pos.n, pos.x, pos.x, pos.y)

\* _trickle_up: os.path.join('%i' % n, '%i' % y, '%i_%i.png' % (y, x))
trickle_pth(pos) == MkPath(pos.n, pos.y, pos.y, pos.x)

\* iter_tiles, base level: os.path.join('%i' % n, '%i' % y, '%i_%i.png' % (y, x))
base_pth(pos) == MkPath(pos.n, pos.y, pos.y, pos.x)

\* iter_tiles, merge-only read: dir/n/ then y/y_x.png
read_pth(pos) == MkPath(pos.n, pos.y, pos.y, pos.x)

\* iter_tiles, restart check: restart_dir/n/y/y_x.png
restart_pth(pos) == MkPath(pos.n, pos.y, pos.y, pos.x)

-----------------------------------------------------------------------------
(* The environment: the sampling function, the directory of tiles and the *)
(* files of the restart directory.                                         *)

NoRegion == Pos(0 - 1, 0, 0)

\* p lies in the subtree of r
Under(p, r) ==
    /\ r.n >= 0
    /\ p.n >= r.n
    /\ p.x \div Pow2(p.n - r.n) = r.x
    /\ p.y \div Pow2(p.n - r.n) = r.y

\* the constant pixel value of the tile at pos
SampleValue(pos) == (100 * pos.n + 10 * pos.x + pos.y) % 256

\* the files of a pyramid directory that holds the tiles of the subtree of r
FilesUnder(r, d) == {MkPath(p.n, p.y, p.y, p.x) : p \in {q \in PosUpTo(Max(d, 1)) : Under(q, r)}}

\* data_sampler(l, b) for the coordinate grids of the tile at pos (the grids
\* come from the compiled helper subsample): a constant image, and no data in
\* the subtree of the sampler's hole
Sample(s, pos) ==
    IF Under(pos, s.hole) THEN None ELSE Full(<<TileSize, TileSize>>, SampleValue(pos))

\* read_png(path), None when the file cannot be read
ReadPng(s, pos) ==
    IF read_pth(pos) \in s.files THEN Full(<<TileSize, TileSize>>, SampleValue(pos)) ELSE None

\* the image of a visited tile when the restart check is left out
ResolveAlwaysSample(s, rst, files, pos) == [img |-> Sample(s, pos), called |-> TRUE]

\* the image of a visited tile when the restart check comes before the test of
\* the type of data_sampler
ResolveRestartFirst(s, rst, files, pos) ==
    IF rst /\ restart_pth(pos) \in files THEN [img |-> None, called |-> FALSE]
    ELSE IF s.kind = "str" THEN [img |-> ReadPng(s, pos), called |-> FALSE]
    ELSE [img |-> Sample(s, pos), called |-> TRUE]

\* iter_tiles: the image of a visited tile, and whether the sampling function ran
ResolveImage(s, rst, files, pos) ==
    IF s.kind = "str" THEN [img |-> ReadPng(s, pos), called |-> FALSE]
    ELSE IF rst /\ restart_pth(pos) \in files THEN [img |-> None, called |-> FALSE]
    ELSE [img |-> Sample(s, pos), called |-> TRUE]

-----------------------------------------------------------------------------
(* The inputs of a run.                                                    *)

BottomLevel(d) == Max(d, 1)

\* the regions the environment is drawn from: nowhere, everywhere, one tile of
\* level 1 and one tile of the bottom level
Regions(d) == {NoRegion, Pos(0, 0, 0), Pos(1, 0, 1), Pos(BottomLevel(d), Pow2(BottomLevel(d)) - 1, 0)}

Samplers(d) ==
    {[kind |-> "func", hole |-> r, files |-> {}] : r \in Regions(d)}
    \cup {[kind |-> "str", hole |-> NoRegion, files |-> FilesUnder(r, d)] :
            r \in {NoRegion, Pos(0, 0, 0), Pos(BottomLevel(d), 0, 0)}}

\* the files of the tiles of the bottom level
LeafFiles(d) == {MkPath(p.n, p.y, p.y, p.x) : p \in Level(BottomLevel(d))}

RestartFiles(d) ==
    {FilesUnder(r, d) : r \in {Pos(0, 0, 0), Pos(1, 1, 1), Pos(BottomLevel(d), 0, 0)}}
    \cup {LeafFiles(d)}

Filters(d) ==
    {NoFilter, [kind |-> "all", layer |-> 0, tx |-> 0, ty |-> 0]}
    \cup {[kind |-> "nxy", layer |-> r.n, tx |-> r.x, ty |-> r.y] :
            r \in {Pos(1, 1, 0), Pos(BottomLevel(d), 0, Pow2(BottomLevel(d)) - 1)}}
    \cup {[kind |-> "quad", layer |-> l, tx |-> 0, ty |-> 0] : l \in {1, BottomLevel(d)}}

Tops(d) == {0, 1, 2, BottomLevel(d) + 1}

EmptyParents == [p \in {} |-> [q \in {} |-> None]]

NoPair == [pth |-> MkPath(0, 0, 0, 0), img |-> None]

\* the state of a run of iter_tiles right after the call
Start(d, m, blo, t, f, s, rst, files) ==
    /\ depth = d
    /\ merge = m
    /\ base_level_only = blo
    /\ top = t
    /\ tile_filter = f
    /\ data_sampler = s
    /\ restart = rst
    /\ disk = files
    /\ dirs = {fl.dir : fl \in files}
    /\ todo = iter_corners(Max(d, 1), m # "none", f)
    /\ pc = "iter"
    /\ im = None
    /\ node = Pos(0, 0, 0)
    /\ parents = EmptyParents
    /\ cur = NoPair
    /\ resume = "iter"
    /\ emitted = << >>
    /\ num = 0
    /\ sampled = {}
    /\ registered = {}
    /\ twice = FALSE
    /\ aggregated = << >>
    /\ mergeLog = [p \in {} |-> 0]
    /\ failed = {}
    /\ query = 0

\* a run with the raising reducer is started without base_level_only, top,
\* predicate and restart; a restart directory that holds the bottom level
\* alone is met with top = 0, no predicate and a sampling function with data
\* everywhere
Init ==
    \E d \in 0..MaxDepth, m \in {"default", "none", "custom", "raising"}, blo \in BOOLEAN :
      \E t \in (IF blo THEN {0} ELSE Tops(d)), f \in Filters(d), s \in Samplers(d) :
        \E rst \in BOOLEAN :
          \E files \in (IF rst THEN RestartFiles(d) ELSE {{}}) :
            /\ m = "raising" => (~blo /\ t = 0 /\ f = NoFilter /\ ~rst)
            /\ (rst /\ files = LeafFiles(d)) =>
                  (t = 0 /\ f = NoFilter /\ s.kind = "func" /\ s.hole = NoRegion)
            /\ Start(d, m, blo, t, f, s, rst, files)

-----------------------------------------------------------------------------
(* iter_tiles and _trickle_up.                                             *)

RECURSIVE SumLen(_, _)
SumLen(acc, ps) ==
    IF ps = {} THEN 0
    ELSE LET p == CHOOSE q \in ps : TRUE
         IN  Cardinality(DOMAIN acc[p]) + SumLen(acc, ps \ {p})

\* sum(len(v) for v in parents.values())
nparent == SumLen(parents, DOMAIN parents)

\* the test of no data with an image always found
IsNoneNever(img) == FALSE

\* img is None
IsNone(img) == ~img.data

\* the body of the for loop of iter_tiles up to the call of _trickle_up or the
\* base-level yield
NextTile ==
    /\ pc = "iter"
    /\ IF todo = << >>
       THEN /\ pc' = "done"
            /\ UNCHANGED <<todo, im, node, cur, resume, sampled>>
       ELSE LET tile == Head(todo)
                got == ResolveImage(data_sampler, restart, disk, tile.pos)
            IN  /\ todo' = Tail(todo)
                /\ sampled' = IF got.called THEN sampled \cup {tile.pos} ELSE sampled
                /\ IF base_level_only
                   THEN IF IsNone(got.img)
                        THEN /\ pc' = "iter"
                             /\ UNCHANGED <<im, node, cur, resume>>
                        ELSE /\ pc' = "yield"
                             /\ cur' = [pth |-> base_pth(tile.pos), img |-> got.img]
                             /\ resume' = "iter"
                             /\ UNCHANGED <<im, node>>
                   ELSE /\ pc' = "trickle"
                        /\ im' = got.img
                        /\ node' = tile.pos
                        /\ UNCHANGED <<cur, resume>>
    /\ UNCHANGED <<args, disk, dirs, parents, emitted, num, registered, twice, aggregated, mergeLog,
                   failed, query>>

\* the yield of _trickle_up with > for >=
EmitsAbove(d, n) == d > n

\* the yield of _trickle_up without its condition
EmitsAlways(d, n) == TRUE

\* if depth >= n: yield pth, im
Emits(d, n) == d >= n

\* _trickle_up from its entry to its yield
TrickleEnter ==
    /\ pc = "trickle"
    /\ IF ~(nparent <= 4 * Max(depth, 1))
       THEN /\ pc' = "AssertionError"
            /\ UNCHANGED <<cur, resume>>
       ELSE IF Emits(depth, node.n) /\ ~IsNone(im)
            THEN /\ pc' = "yield"
                 /\ cur' = [pth |-> trickle_pth(node), img |-> im]
                 /\ resume' = "register"
            ELSE /\ pc' = "register"
                 /\ UNCHANGED <<cur, resume>>
    /\ UNCHANGED <<args, disk, dirs, todo, im, node, parents, emitted, num, sampled, registered, twice,
                   aggregated, mergeLog, failed, query>>

\* _trickle_up without its early return for merge = False
StopsNever(m, n) == FALSE

\* _trickle_up returning before it registers a tile of level 1
StopsBelowRoot(m, n) == (m = "none" /\ n > 1) \/ n = 1

\* if not merge and n > 1: return
StopsAccumulating(m, n) == m = "none" /\ n > 1

\* _trickle_up from its yield to the test of len(corners)
TrickleRegister ==
    /\ pc = "register"
    /\ IF node.n = top \/ StopsAccumulating(merge, node.n)
       THEN /\ pc' = "iter"
            /\ UNCHANGED <<parents, registered, twice>>
       ELSE LET up == _parent(node)
                parent == up[1]
                slot == <<up[2], up[3]>>
                corners == IF parent \in DOMAIN parents THEN parents[parent]
                           ELSE [q \in {} |-> None]
                filled == [q \in DOMAIN corners \cup {slot} |->
                             IF q = slot THEN im ELSE corners[q]]
            IN  /\ parents' = [p \in DOMAIN parents \cup {parent} |->
                                 IF p = parent THEN filled ELSE parents[p]]
                /\ registered' = registered \cup {<<parent, slot>>}
                /\ twice' = (twice \/ <<parent, slot>> \in registered)
                /\ pc' = IF Cardinality(DOMAIN filled) < 4 THEN "iter" ELSE "merge"
    /\ UNCHANGED <<args, disk, dirs, todo, im, node, cur, resume, emitted, num, sampled, aggregated,
                   mergeLog, failed, query>>

\* a missing quadrant filled with ones
FillOnes(img, shape) == IF img.data THEN img ELSE Full(shape, 1)

\* a quadrant as it enters the mosaic
Fill(img, shape) == IF img.data THEN img ELSE Zeros(shape)

\* the mosaic with the upper right image in the lower left place as well
ReduceRepeated(m, ul, ur, bl, br) ==
    LET present == SelectSeq(<<ul, ur, bl, br>>, LAMBDA c : c.data)
    IN  IF present = << >>
        THEN [mosaic |-> None, im |-> None, raised |-> FALSE]
        ELSE LET imgShape == Shape(present[1])
                 mosaic == Mosaic(Fill(ul, imgShape), Fill(ur, imgShape),
                                  Fill(ur, imgShape), Fill(br, imgShape))
             IN  [mosaic |-> mosaic, im |-> ApplyMerge(m, mosaic), raised |-> FALSE]

\* _trickle_up: the image of a parent whose four quadrants are ul, ur, bl, br
Reduce(m, ul, ur, bl, br) ==
    LET present == SelectSeq(<<ul, ur, bl, br>>, LAMBDA c : c.data)
    IN  IF present = << >>
        THEN [mosaic |-> None, im |-> None, raised |-> FALSE]
        ELSE LET imgShape == Shape(present[1])
             IN  IF imgShape = << >>
                 THEN [mosaic |-> None, im |-> None, raised |-> FALSE]
                 ELSE LET mosaic == Mosaic(Fill(ul, imgShape), Fill(ur, imgShape),
                                           Fill(bl, imgShape), Fill(br, imgShape))
                      IN  IF Raises(m, mosaic)
                          THEN [mosaic |-> mosaic, im |-> None, raised |-> TRUE]
                          ELSE [mosaic |-> mosaic, im |-> ApplyMerge(m, mosaic),
                                raised |-> FALSE]

\* _trickle_up from parents.pop(parent) to the recursive call
TrickleMerge ==
    /\ pc = "merge"
    /\ LET parent == _parent(node)[1]
           corners == parents[parent]
           ul == corners[<<0, 0>>]
           ur == corners[<<1, 0>>]
           bl == corners[<<0, 1>>]
           br == corners[<<1, 1>>]
           red == Reduce(merge, ul, ur, bl, br)
       IN  /\ parents' = [p \in DOMAIN parents \ {parent} |-> parents[p]]
           /\ aggregated' = Append(aggregated, parent)
           /\ mergeLog' = [p \in DOMAIN mergeLog \cup {parent} |->
                             IF p = parent
                             THEN [ul |-> ul, ur |-> ur, bl |-> bl, br |-> br,
                                   mosaic |-> red.mosaic, im |-> red.im,
                                   raised |-> red.raised]
                             ELSE mergeLog[p]]
           /\ im' = red.im
           /\ node' = parent
           /\ pc' = "trickle"
    /\ UNCHANGED <<args, disk, dirs, todo, cur, resume, emitted, num, sampled, registered, twice,
                   failed, query>>

\* the consumer of the generator takes the pair, counts it (num += 1) and asks
\* for the next one
Consume ==
    /\ pc = "yield"
    /\ emitted' = Append(emitted, cur)
    /\ num' = num + 1
    /\ pc' = resume
    /\ UNCHANGED <<args, disk, dirs, todo, im, node, parents, cur, resume, sampled, registered,
                   twice, aggregated, mergeLog, failed, query>>

Next == NextTile \/ TrickleEnter \/ TrickleRegister \/ TrickleMerge \/ Consume

Spec == Init /\ [][Next]_vars

-----------------------------------------------------------------------------
(* Properties of the runs of iter_tiles.                                   *)

Quadrants == {<<0, 0>>, <<1, 0>>, <<0, 1>>, <<1, 1>>}

\* the level of an emitted pair, read from its path
LevelOf(e) == e.pth.dir[1]

\* the paths emitted so far
EmittedPaths == {emitted[i].pth : i \in 1..Len(emitted)}

\* the positions iter_corners visits in this run when nothing is pruned
Visited(p) ==
    /\ p.n >= 1
    /\ p.n <= BottomLevel(depth)
    /\ (merge = "none" \/ p.n = BottomLevel(depth))

\* the block of a mosaic that quadrant (xc, yc) occupies
Block(mosaic, xc, yc) ==
    LET h == Len(mosaic.px) \div 2
        w == Len(mosaic.px[1]) \div 2
    IN  [i \in 1..h |-> [j \in 1..w |-> mosaic.px[yc * h + i][xc * w + j]]]

\* C1: the images buffered in the accumulator never number more than
\* 4 * max(depth, 1), so the assertion of _trickle_up never fails
C1_AccumulatorBound == nparent <= 4 * Max(depth, 1) /\ pc # "AssertionError"

\* C2: a parent is aggregated at most once and only when its fourth quadrant
\* was registered; no slot is registered twice, no consumed entry comes back
C2_AggregatedOnce ==
    /\ ~twice
    /\ \A i, j \in 1..Len(aggregated) : aggregated[i] = aggregated[j] => i = j
    /\ \A i \in 1..Len(aggregated) :
         /\ aggregated[i] \notin DOMAIN parents
         /\ \A q \in Quadrants : <<aggregated[i], q>> \in registered
    /\ \A p \in DOMAIN parents :
         /\ DOMAIN parents[p] \subseteq Quadrants
         /\ \A q \in DOMAIN parents[p] : <<p, q>> \in registered
         /\ DOMAIN parents[p] = Quadrants
              => pc = "merge" /\ p = Pos(node.n - 1, node.x \div 2, node.y \div 2)
    /\ pc = "merge" =>
         /\ Pos(node.n - 1, node.x \div 2, node.y \div 2) \in DOMAIN parents
         /\ DOMAIN parents[Pos(node.n - 1, node.x \div 2, node.y \div 2)] = Quadrants

C2_Witness ==
    /\ pc = "done"
    /\ Len(aggregated) >= 5
    /\ aggregated[Len(aggregated)] = Pos(0, 0, 0)

\* the run C3 is about: merging with a reducer that returns an image, top = 0,
\* nothing pruned, a sampling function with data everywhere
FullRun ==
    /\ merge \in {"default", "custom"}
    /\ ~base_level_only
    /\ top = 0
    /\ tile_filter = NoFilter
    /\ data_sampler.kind = "func"
    /\ data_sampler.hole = NoRegion
    /\ ~restart

\* C3: a full run emits one pair for every position of levels 0..depth and
\* nothing else, depth2tiles(depth) pairs in all
C3_FullPyramid ==
    (FullRun /\ pc = "done") =>
        /\ EmittedPaths = {MkPath(p.n, p.y, p.y, p.x) : p \in PosUpTo(depth)}
        /\ Len(emitted) = depth2tiles(depth)
        /\ num = depth2tiles(depth)
        /\ \A i \in 1..Len(emitted) : emitted[i].img.data

C3_Witness == FullRun /\ pc = "done" /\ depth = 2 /\ num = 21

\* the positions the restart check skips
Skipped(p) ==
    /\ Visited(p)
    /\ restart
    /\ data_sampler.kind = "func"
    /\ MkPath(p.n, p.y, p.y, p.x) \in disk

\* C4: a tile whose file exists in the restart directory is not sampled and
\* not emitted; once its parent is complete with a sibling that has data, its
\* quadrant of the mosaic is zero and the parent is emitted
C4_RestartSkips ==
    (restart /\ data_sampler.kind = "func") =>
      LET paths == EmittedPaths
      IN
      \A f \in disk :
        LET p == Pos(f.dir[1], f.file[2], f.file[1])
            par == Pos(p.n - 1, p.x \div 2, p.y \div 2)
        IN  Skipped(p) =>
              /\ p \notin sampled
              /\ f \notin paths
              /\ (/\ par \in DOMAIN mergeLog
                  /\ \E c \in {mergeLog[par].ul, mergeLog[par].ur,
                               mergeLog[par].bl, mergeLog[par].br} : c.data)
                 => /\ mergeLog[par].mosaic.data
                    /\ Block(mergeLog[par].mosaic, p.x % 2, p.y % 2)
                         = Zeros(<<TileSize, TileSize>>).px
                    /\ mergeLog[par].im.data
                    /\ \/ \E i \in 1..Len(emitted) :
                            emitted[i].pth = MkPath(par.n, par.y, par.y, par.x)
                       \/ node = par /\ pc = "trickle"
                       \/ pc = "yield" /\ cur.pth = MkPath(par.n, par.y, par.y, par.x)

C4_Witness ==
    /\ pc = "done"
    /\ \E p \in PosUpTo(BottomLevel(depth)) :
         /\ Skipped(p)
         /\ p.n = 2
         /\ Pos(1, p.x \div 2, p.y \div 2) \in DOMAIN mergeLog
         /\ mergeLog[Pos(1, p.x \div 2, p.y \div 2)].im.data
         /\ MkPath(1, p.y \div 2, p.y \div 2, p.x \div 2) \in EmittedPaths

\* the image iter_tiles resolves for the tile of an emitted pair
OwnImage(e) ==
    LET p == Pos(e.pth.dir[1], e.pth.file[2], e.pth.file[1])
    IN  IF data_sampler.kind = "str" THEN ReadPng(data_sampler, p)
        ELSE Sample(data_sampler, p)

C6_TopIsTopmost ==
    /\ \A i \in 1..Len(emitted) : LevelOf(emitted[i]) >= top
    /\ \A r \in registered : r[1].n >= top
    /\ \A p \in DOMAIN parents : p.n >= top

\* C10: with base_level_only, whatever the merge policy, only tiles of level
\* max(depth, 1) are emitted, each visited one with data once, and nothing
\* is accumulated or merged
C10_BaseLevelOnly ==
    base_level_only =>
        /\ \A i \in 1..Len(emitted) : LevelOf(emitted[i]) = BottomLevel(depth)
        /\ \A i, j \in 1..Len(emitted) : emitted[i].pth = emitted[j].pth => i = j
        /\ \A i \in 1..Len(emitted) : emitted[i].img.data
        /\ parents = EmptyParents
        /\ registered = {}
        /\ aggregated = << >>

\* C15: the parent of a position of depth 0 is never computed as a position:
\* no image is registered under a parent of negative depth
C15_NoNegativeParent ==
    /\ \A r \in registered : r[1].n >= 0
    /\ \A p \in DOMAIN parents : p.n >= 0

\* the position a path names
PosOfPath(f) == Pos(f.dir[1], f.file[2], f.file[1])

\* C16: in merge-only mode the sampling function is never invoked, a visited
\* tile is emitted, with the image of its file n/y/y_x.png, exactly when that
\* file is in the directory (a missing file is no data), and the files of the
\* restart directory make no difference
C16_MergeOnlyReads ==
    data_sampler.kind = "str" =>
        /\ sampled = {}
        /\ \A i \in 1..Len(emitted) :
             Visited(PosOfPath(emitted[i].pth)) =>
                /\ emitted[i].pth \in data_sampler.files
                /\ emitted[i].img = Full(<<TileSize, TileSize>>,
                                         SampleValue(PosOfPath(emitted[i].pth)))
        /\ (pc = "done" /\ tile_filter = NoFilter /\ depth >= 1) =>
             \A f \in data_sampler.files : Visited(PosOfPath(f)) => f \in EmittedPaths

C16_Witness ==
    /\ data_sampler.kind = "str"
    /\ restart
    /\ tile_filter = NoFilter
    /\ depth = 2
    /\ pc = "done"
    /\ \E f \in disk : f \in data_sampler.files /\ f \in EmittedPaths /\ Visited(PosOfPath(f))
    /\ \E p \in Level(2) : MkPath(p.n, p.y, p.y, p.x) \notin data_sampler.files

\* the mean of four pixels, cut to a whole number
Avg4(a, b, c, d) == (a + b + c + d) \div 4

\* the half (0 or 1) of a mosaic that row or column k lies in, and its place
\* in that half
HalfOf(k) == IF k > TileSize THEN 1 ELSE 0
PlaceOf(k) == IF k > TileSize THEN k - TileSize ELSE k

\* pixel (i, j) of the block average of the four leaves of the tile (1, X, Y)
Level1Pixel(X, Y, i, j) ==
    LET leaf(r, c) == SampleValue(Pos(2, 2 * X + HalfOf(c), 2 * Y + HalfOf(r)))
    IN  Avg4(leaf(2*i - 1, 2*j - 1), leaf(2*i, 2*j - 1), leaf(2*i - 1, 2*j), leaf(2*i, 2*j))

\* pixel (i, j) of the block average of the four block averages of level 1
RootPixel(i, j) ==
    LET one(r, c) == Level1Pixel(HalfOf(c), HalfOf(r), PlaceOf(r), PlaceOf(c))
    IN  Avg4(one(2*i - 1, 2*j - 1), one(2*i, 2*j - 1), one(2*i - 1, 2*j), one(2*i, 2*j))

\* C18: in a full run to depth 2 with the default merge, the emitted image of
\* every tile of level 1 is the block average of its four leaf constants,
\* placed by quadrant, and the emitted root is the block average of those
C18_RootIsBlockAverage ==
    (FullRun /\ merge = "default" /\ depth = 2 /\ pc = "done") =>
        /\ \E k \in 1..Len(emitted) :
             /\ emitted[k].pth = MkPath(0, 0, 0, 0)
             /\ emitted[k].img = [data |-> TRUE,
                                  px |-> [i \in 1..TileSize |->
                                            [j \in 1..TileSize |-> RootPixel(i, j)]]]
        /\ \A X, Y \in 0..1 :
             \E k \in 1..Len(emitted) :
               /\ emitted[k].pth = MkPath(1, Y, Y, X)
               /\ emitted[k].img = [data |-> TRUE,
                                    px |-> [i \in 1..TileSize |->
                                              [j \in 1..TileSize |-> Level1Pixel(X, Y, i, j)]]]

C18_Witness ==
    /\ FullRun
    /\ merge = "default"
    /\ depth = 2
    /\ pc = "done"
    /\ Len(emitted) = 21
    /\ emitted[21].pth = MkPath(0, 0, 0, 0)
    /\ emitted[21].img.data
    /\ Pos(0, 0, 0) \in DOMAIN mergeLog

\* the tiles the traversal of this run yields, from the first to the last
AllTiles == iter_corners(Max(depth, 1), merge # "none", tile_filter)

\* the ancestors of p, the root included
AncestorsOf(p) == {Pos(p.n - k, p.x \div (2 ^ k), p.y \div (2 ^ k)) : k \in 1..p.n}

\* the traversal of this run yields a tile at p: p is of a level it yields and
\* the predicate accepts p and its ancestors down from level 1
Yielded(p) ==
    /\ Visited(p)
    /\ \A a \in {p} \cup AncestorsOf(p) : a.n >= 1 => TileFilter(tile_filter, Tile(a, TRUE))

\* the traversal has yielded the tile at p already
VisitedSoFar(p) == Yielded(p) /\ \A i \in 1..Len(todo) : todo[i].pos # p

\* the positions of the four children of p
ChildrenOf(p) == {Pos(p.n + 1, 2 * p.x + q[1], 2 * p.y + q[2]) : q \in Quadrants}

\* the predicate rejects a child of p that lies within the depth of the run
RejectedChild(p) ==
    /\ p.n < BottomLevel(depth)
    /\ \E c \in ChildrenOf(p) : ~TileFilter(tile_filter, Tile(c, TRUE))

\* p was never aggregated and never emitted
NeverDone(p) ==
    /\ \A i \in 1..Len(aggregated) : aggregated[i] # p
    /\ MkPath(p.n, p.y, p.y, p.x) \notin EmittedPaths
    /\ ~(pc = "yield" /\ cur.pth = MkPath(p.n, p.y, p.y, p.x))

\* C23 as stated: a parent with a rejected child and a visited one is never
\* aggregated or emitted, nor are its ancestors, and its partly filled entry
\* is live from then on
C23_PrunedParentNeverEmitted ==
    pc \in {"iter", "done"} =>
      \A p \in PosUpTo(BottomLevel(depth) - 1) :
        (RejectedChild(p) /\ \E c \in ChildrenOf(p) : VisitedSoFar(c)) =>
            /\ NeverDone(p)
            /\ \A a \in AncestorsOf(p) : NeverDone(a)
            /\ p \in DOMAIN parents
            /\ Cardinality(DOMAIN parents[p]) < 4

\* C23, amended: a parent that the traversal does not itself visit, with a
\* rejected child and a visited one, is never aggregated or emitted, nor are
\* its ancestors; and a parent with a rejected child keeps its partly filled
\* entry from the registration of its first child on.  Both parts are
\* written by contraposition: a position that was aggregated or emitted, or
\* has such an ancestor, is not such a parent; a parent with a registered
\* child and no open entry has no rejected child.  Without a predicate no
\* child is rejected.
C23_PrunedParentStaysOpen ==
    LET waiting == {todo[i].pos : i \in 1..Len(todo)}
        merged == {aggregated[i] : i \in 1..Len(aggregated)}
        paths == EmittedPaths \cup (IF pc = "yield" THEN {cur.pth} ELSE {})
        Seen(c) == Yielded(c) /\ c \notin waiting
        Done(a) == a \in merged \/ MkPath(a.n, a.y, a.y, a.x) \in paths
        Open(p) == p \in DOMAIN parents /\ Cardinality(DOMAIN parents[p]) < 4
    IN  \A p \in (IF tile_filter = NoFilter THEN {} ELSE PosUpTo(BottomLevel(depth) - 1)) :
          /\ (Done(p) \/ \E a \in AncestorsOf(p) : Done(a))
                => ~(/\ ~Yielded(p)
                     /\ RejectedChild(p)
                     /\ \E c \in ChildrenOf(p) : Seen(c))
          /\ ((\E q \in Quadrants : <<p, q>> \in registered) /\ ~Open(p))
                => ~RejectedChild(p)

C23_Witness ==
    /\ pc = "done"
    /\ merge = "default"
    /\ depth = 2
    /\ top = 0
    /\ tile_filter.kind = "quad"
    /\ tile_filter.layer = 1
    /\ Pos(0, 0, 0) \in DOMAIN parents
    /\ Cardinality(DOMAIN parents[Pos(0, 0, 0)]) = 3
    /\ Len(emitted) = 15

\* C24: when the merge function raises, the run is aborted by that exception
\* and does not go on with the parent as no data
C24_MergeErrorAborts ==
    \A p \in DOMAIN mergeLog : mergeLog[p].raised => pc = "Exception"

\* C25: when the generator is exhausted no accumulator entry remains
C25_NoEntryRemains == pc = "done" => parents = EmptyParents

\* C27: the result of an aggregation whose merge function did not raise is no
\* data exactly when all four quadrants are no data; otherwise the block of
\* each quadrant without data is zero, of the shape of a sibling with data,
\* the other blocks are the quadrants, and the result is the merge of that
\* mosaic.  Stated of the state that the aggregation leads to, where
\* _trickle_up is entered for the parent.
C27_ZeroFill ==
    \A p \in (IF pc = "trickle" THEN DOMAIN mergeLog \cap {node} ELSE {}) :
      LET log == mergeLog[p]
          quads == <<log.ul, log.ur, log.bl, log.br>>
          place == <<<<0, 0>>, <<1, 0>>, <<0, 1>>, <<1, 1>>>>
          some == \E k \in 1..4 : quads[k].data
      IN  ~log.raised =>
            /\ log.im.data <=> some
            /\ some =>
                 /\ log.mosaic.data
                 /\ \A k \in 1..4 :
                      Block(log.mosaic, place[k][1], place[k][2]) =
                        IF quads[k].data THEN quads[k].px
                        ELSE LET sib == CHOOSE j \in 1..4 : quads[j].data
                             IN  [r \in 1..Len(quads[sib].px) |->
                                    [c \in 1..Len(quads[sib].px[1]) |-> 0]]
                 /\ log.im = ApplyMerge(merge, log.mosaic)

C27_Witness ==
    /\ pc = "done"
    /\ merge = "default"
    /\ Pos(1, 0, 1) \in DOMAIN mergeLog
    /\ ~mergeLog[Pos(1, 0, 1)].im.data
    /\ Pos(0, 0, 0) \in DOMAIN mergeLog
    /\ ~mergeLog[Pos(0, 0, 0)].bl.data
    /\ mergeLog[Pos(0, 0, 0)].ul.data
    /\ mergeLog[Pos(0, 0, 0)].im.data

\* C28: the image of every pair iter_tiles yields is an image, never no data
C28_NoNoDataEmitted ==
    /\ \A i \in 1..Len(emitted) : emitted[i].img.data
    /\ pc = "yield" => cur.img.data

C28_Witness ==
    /\ pc = "done"
    /\ base_level_only
    /\ depth = 2
    /\ tile_filter = NoFilter
    /\ data_sampler.kind = "func"
    /\ data_sampler.hole = Pos(1, 0, 1)
    /\ ~restart
    /\ Len(emitted) = 12

\* the full run to depth 0 emits one pair, the root 0/0/0_0.png, merged from
\* the four images of level 1
DepthZeroRoot ==
    (depth = 0 /\ FullRun /\ pc = "done") =>
        /\ {t.pos : t \in {AllTiles[i] : i \in 1..Len(AllTiles)}} = Level(1)
        /\ Len(emitted) = 1
        /\ emitted[1].pth = MkPath(0, 0, 0, 0)
        /\ emitted[1].img =
             ApplyMerge(merge, Mosaic(Sample(data_sampler, Pos(1, 0, 0)),
                                      Sample(data_sampler, Pos(1, 1, 0)),
                                      Sample(data_sampler, Pos(1, 0, 1)),
                                      Sample(data_sampler, Pos(1, 1, 1))))

\* C29 as stated: in every run to depth 0 the four images of level 1 are
\* registered and not emitted, and the full run emits the merged root alone
C29_LevelOneRegisteredNotEmitted ==
    /\ depth = 0 => \A i \in 1..Len(emitted) : LevelOf(emitted[i]) < 1
    /\ (depth = 0 /\ tile_filter = NoFilter /\ pc = "done") =>
          \A q \in Quadrants : <<Pos(0, 0, 0), q>> \in registered
    /\ DepthZeroRoot

\* C29, amended: in a run to depth 0 outside base_level_only no tile of level
\* 1 is emitted and, unless top is 1, the four images of level 1 are
\* registered under the root; the full run emits the merged root alone
C29_DepthZero ==
    /\ (depth = 0 /\ ~base_level_only) =>
          \A i \in 1..Len(emitted) : LevelOf(emitted[i]) < 1
    /\ (depth = 0 /\ ~base_level_only /\ top # 1 /\ tile_filter = NoFilter /\ pc = "done") =>
          \A q \in Quadrants : <<Pos(0, 0, 0), q>> \in registered
    /\ DepthZeroRoot

C29_Witness ==
    /\ depth = 0
    /\ FullRun
    /\ merge = "default"
    /\ pc = "done"
    /\ num = 1
    /\ sampled = Level(1)

\* a run that merges: a reducer that returns an image, and not the base level
\* alone
MergingRun == merge \in {"default", "custom"} /\ ~base_level_only

\* the image iter_tiles resolves for the leaf at p is data
LeafHasData(p) ==
    IF data_sampler.kind = "str" THEN MkPath(p.n, p.y, p.y, p.x) \in data_sampler.files
    ELSE /\ ~(restart /\ MkPath(p.n, p.y, p.y, p.x) \in disk)
         /\ ~Under(p, data_sampler.hole)

\* C31: in a merging run no pair is emitted after a pair of one of its
\* ancestors (or of its own position), so every emitted tile comes after the
\* emitted tiles of its subtree; and a run with top = 0, no predicate and a
\* leaf with data ends with the root as its last pair
C31_SubtreeFirstRootLast ==
    MergingRun =>
      /\ pc = "yield" =>
            LET p == PosOfPath(cur.pth)
                above == {p} \cup AncestorsOf(p)
            IN  \A j \in 1..Len(emitted) : PosOfPath(emitted[j].pth) \notin above
      /\ (/\ pc = "done"
          /\ top = 0
          /\ tile_filter = NoFilter
          /\ \E p \in Level(BottomLevel(depth)) : LeafHasData(p))
         => /\ Len(emitted) >= 1
            /\ emitted[Len(emitted)].pth = MkPath(0, 0, 0, 0)

C31_Witness ==
    /\ MergingRun
    /\ pc = "done"
    /\ depth = 2
    /\ top = 0
    /\ tile_filter = NoFilter
    /\ data_sampler.hole = Pos(2, 3, 0)
    /\ ~restart
    /\ Len(emitted) = 20
    /\ emitted[5].pth = MkPath(1, 0, 0, 0)
    /\ emitted[20].pth = MkPath(0, 0, 0, 0)

\* C32 as stated: a restart on a directory that holds the file of every tile
\* of the bottom level calls the sampling function for no tile and emits no
\* pair
C32_RestartOnLeavesIsSilent ==
    (restart /\ LeafFiles(depth) \subseteq disk) =>
        /\ sampled = {}
        /\ emitted = << >>
        /\ num = 0
        /\ pc # "yield"

\* C32, amended: the same for a sampling function (not the merge-only mode)
\* and a traversal that yields the bottom level alone, which is every run
\* with merge other than False and every run with depth <= 1
C32_RestartOnLeavesOfMergingRun ==
    (/\ restart
     /\ data_sampler.kind = "func"
     /\ (merge # "none" \/ depth <= 1)
     /\ LeafFiles(depth) \subseteq disk) =>
        /\ sampled = {}
        /\ emitted = << >>
        /\ num = 0
        /\ pc # "yield"

C32_Witness ==
    /\ pc = "done"
    /\ restart
    /\ disk = LeafFiles(2)
    /\ depth = 2
    /\ merge = "default"
    /\ ~base_level_only
    /\ data_sampler.kind = "func"
    /\ data_sampler.hole = NoRegion
    /\ Len(aggregated) = 5
    /\ sampled = {}
    /\ emitted = << >>

\* the image that the run has for the tile at c when its parent is
\* aggregated: the result of its own aggregation, or the image resolved for it
ImageOf(c) ==
    IF c \in DOMAIN mergeLog THEN mergeLog[c].im
    ELSE ResolveImage(data_sampler, restart, disk, c).img

\* C33: in the mosaic of an aggregated parent (n, x, y) the column half xc
\* and the row half yc hold the image of the child (n+1, 2x+xc, 2y+yc), zeros
\* when that child has no data; that child is registered under the quadrant
\* code (xc, yc), and _div4 lists the children in the order upper left, upper
\* right, lower left, lower right.  Stated of the state that an aggregation
\* leads to, where _trickle_up is entered for the parent.
C33_QuadrantPlacement ==
    (pc = "trickle" /\ Len(aggregated) > 0 /\ aggregated[Len(aggregated)] = node) =>
      LET p == node
          log == mergeLog[p]
          place == <<<<0, 0>>, <<1, 0>>, <<0, 1>>, <<1, 1>>>>
          child == [k \in 1..4 |-> Pos(p.n + 1, 2 * p.x + place[k][1], 2 * p.y + place[k][2])]
      IN  /\ \A k \in 1..4 : _parent(child[k]) = <<p, place[k][1], place[k][2]>>
          /\ <<log.ul, log.ur, log.bl, log.br>> = [k \in 1..4 |-> ImageOf(child[k])]
          /\ log.mosaic.data =>
                \A k \in 1..4 :
                   Block(log.mosaic, place[k][1], place[k][2]) =
                     IF ImageOf(child[k]).data THEN ImageOf(child[k]).px
                     ELSE Zeros(<<TileSize, TileSize>>).px
          /\ p.n >= 1 =>
                [k \in 1..4 |-> _div4(Tile(p, TRUE))[k].pos] = child

C33_Witness ==
    /\ pc = "done"
    /\ depth = 2
    /\ merge = "default"
    /\ data_sampler.kind = "func"
    /\ data_sampler.hole = Pos(2, 3, 0)
    /\ ~restart
    /\ tile_filter = NoFilter
    /\ top = 0
    /\ Len(aggregated) = 5
    /\ aggregated[5] = Pos(0, 0, 0)
    /\ Block(mergeLog[Pos(1, 1, 0)].mosaic, 0, 0) = Full(<<TileSize, TileSize>>, 220).px
    /\ Block(mergeLog[Pos(1, 1, 0)].mosaic, 1, 0) = Zeros(<<TileSize, TileSize>>).px
    /\ Block(mergeLog[Pos(1, 1, 0)].mosaic, 0, 1) = Full(<<TileSize, TileSize>>, 221).px
    /\ Block(mergeLog[Pos(1, 1, 0)].mosaic, 1, 1) = Full(<<TileSize, TileSize>>, 231).px
    /\ Block(mergeLog[Pos(0, 0, 0)].mosaic, 1, 0) = mergeLog[Pos(1, 1, 0)].im.px

\* C30: with merging and no predicate the parents of the live entries have
\* different depths and lie on one chain of ancestors
C30_OneChain ==
    (merge # "none" /\ tile_filter = NoFilter) =>
        \A p, q \in DOMAIN parents :
            p # q => /\ p.n # q.n
                     /\ p.n < q.n => Under(q, p)

C30_Witness ==
    /\ merge = "default"
    /\ tile_filter = NoFilter
    /\ depth = 2
    /\ top = 0
    /\ pc = "iter"
    /\ DOMAIN parents = {Pos(0, 0, 0), Pos(1, 1, 1)}
    /\ Cardinality(DOMAIN parents[Pos(0, 0, 0)]) = 2
    /\ Cardinality(DOMAIN parents[Pos(1, 1, 1)]) = 3

-----------------------------------------------------------------------------
(* The traversal on its own: iter_corners(depth, bottom_only, tile_filter) *)
(* consumed tile by tile.                                                  *)

\* the state of the variables a specification does not use
Idle ==
    /\ depth = 0
    /\ merge = "default"
    /\ base_level_only = FALSE
    /\ top = 0
    /\ tile_filter = NoFilter
    /\ data_sampler = [kind |-> "func", hole |-> NoRegion, files |-> {}]
    /\ restart = FALSE
    /\ disk = {}
    /\ dirs = {}
    /\ im = None
    /\ node = Pos(0, 0, 0)
    /\ parents = EmptyParents
    /\ cur = NoPair
    /\ resume = "iter"
    /\ emitted = << >>
    /\ num = 0
    /\ sampled = {}
    /\ registered = {}
    /\ twice = FALSE
    /\ aggregated = << >>
    /\ mergeLog = [p \in {} |-> 0]
    /\ failed = {}

CornerFilters ==
    {NoFilter, [kind |-> "all", layer |-> 0, tx |-> 0, ty |-> 0]}
    \cup {[kind |-> "nxy", layer |-> r.n, tx |-> r.x, ty |-> r.y] : r \in PosUpTo(MaxDepth)}
    \cup {[kind |-> "quad", layer |-> l, tx |-> 0, ty |-> 0] : l \in 1..MaxDepth}

\* _postfix_corner that goes on into the children of a rejected tile
RECURSIVE _postfix_corner_descends(_, _, _, _)
_postfix_corner_descends(tile, d, bottom_only, f) ==
    LET n == tile.pos.n
        ch == _div4(tile)
    IN  IF n > d THEN << >>
        ELSE <<[ev |-> "tile_filter", tile |-> tile]>>
             \o _postfix_corner_descends(ch[1], d, bottom_only, f)
             \o _postfix_corner_descends(ch[2], d, bottom_only, f)
             \o _postfix_corner_descends(ch[3], d, bottom_only, f)
             \o _postfix_corner_descends(ch[4], d, bottom_only, f)
             \o (IF TileFilter(f, tile) /\ (n = d \/ ~bottom_only)
                 THEN <<[ev |-> "yield", tile |-> tile]>> ELSE << >>)

\* what _postfix_corner does, in order: the calls of tile_filter and the yields
RECURSIVE _postfix_corner_trace(_, _, _, _)
_postfix_corner_trace(tile, d, bottom_only, f) ==
    LET n == tile.pos.n
        ch == _div4(tile)
    IN  IF n > d THEN << >>
        ELSE <<[ev |-> "tile_filter", tile |-> tile]>>
             \o (IF ~TileFilter(f, tile) THEN << >>
                 ELSE _postfix_corner_trace(ch[1], d, bottom_only, f)
                      \o _postfix_corner_trace(ch[2], d, bottom_only, f)
                      \o _postfix_corner_trace(ch[3], d, bottom_only, f)
                      \o _postfix_corner_trace(ch[4], d, bottom_only, f)
                      \o (IF n = d \/ ~bottom_only
                          THEN <<[ev |-> "yield", tile |-> tile]>> ELSE << >>))

iter_corners_trace(d, bottom_only, f) ==
    _postfix_corner_trace(level1_todo[1], d, bottom_only, f)
    \o _postfix_corner_trace(level1_todo[2], d, bottom_only, f)
    \o _postfix_corner_trace(level1_todo[3], d, bottom_only, f)
    \o _postfix_corner_trace(level1_todo[4], d, bottom_only, f)

\* the index of the first yield of a trace, Len(trace) + 1 when it has none
FirstYield(trace) ==
    CHOOSE k \in 1..(Len(trace) + 1) :
        /\ k = Len(trace) + 1 \/ trace[k].ev = "yield"
        /\ \A j \in 1..(k - 1) : trace[j].ev # "yield"

InitCorners ==
    /\ Idle
    /\ \E d \in 0..MaxDepth, bo \in BOOLEAN, f \in CornerFilters :
         /\ query = [depth |-> d, bottom_only |-> bo, tile_filter |-> f, yielded |-> << >>,
                     trace |-> iter_corners_trace(d, bo, f), asked |-> {}]
         /\ todo = iter_corners(d, bo, f)
    /\ pc = "corners"

\* the consumer asks iter_corners for its next tile: the generator runs to its
\* next yield, or to its end, and calls tile_filter on the way
NextCorner ==
    /\ pc = "corners"
    /\ LET k == FirstYield(query.trace)
           calls == {query.trace[j].tile : j \in 1..(k - 1)}
           rest == SubSeq(query.trace, k + 1, Len(query.trace))
       IN  IF todo = << >>
           THEN /\ pc' = "exhausted"
                /\ query' = [query EXCEPT !.asked = @ \cup calls, !.trace = rest]
                /\ UNCHANGED todo
           ELSE /\ query' = [query EXCEPT !.yielded = Append(@, Head(todo)),
                                          !.asked = @ \cup calls, !.trace = rest]
                /\ todo' = Tail(todo)
                /\ pc' = "corners"
    /\ UNCHANGED <<args, disk, dirs, im, node, parents, cur, resume, emitted, num, sampled,
                   registered, twice, aggregated, mergeLog, failed>>

SpecCorners == InitCorners /\ [][NextCorner]_vars

\* the traversal is filtered by nxy_tile_filter(r) and descends at least to r
RegionRun == query.tile_filter.kind = "nxy" /\ query.depth >= query.tile_filter.layer

RegionOf(f) == Pos(f.layer, f.tx, f.ty)

\* every tile of the region that the unfiltered traversal yields was yielded
RegionComplete ==
    LET r == RegionOf(query.tile_filter)
        all == iter_corners(query.depth, query.bottom_only, NoFilter)
    IN  pc = "exhausted" =>
          \A i \in 1..Len(all) :
            Under(all[i].pos, r) => \E j \in 1..Len(query.yielded) : query.yielded[j] = all[i]

\* C7 as stated: the traversal filtered by nxy_tile_filter(r) yields only r
\* and descendants of r, and all of those the unfiltered traversal yields
C7_OnlyTheRegion ==
    RegionRun =>
        /\ \A i \in 1..Len(query.yielded) :
             Under(query.yielded[i].pos, RegionOf(query.tile_filter))
        /\ RegionComplete

\* C7, amended: it yields only r, descendants of r and, when bottom_only is
\* false, the ancestors of r; and all of the region the unfiltered one yields
C7_RegionAndAncestors ==
    RegionRun =>
        /\ \A i \in 1..Len(query.yielded) :
             \/ Under(query.yielded[i].pos, RegionOf(query.tile_filter))
             \/ ~query.bottom_only /\ Under(RegionOf(query.tile_filter), query.yielded[i].pos)
        /\ RegionComplete

C7_Witness ==
    /\ pc = "exhausted"
    /\ RegionRun
    /\ query.tile_filter.layer = 1
    /\ query.depth = 2
    /\ ~query.bottom_only
    /\ Len(query.yielded) = 5
    /\ query.yielded[5].pos = RegionOf(query.tile_filter)

\* the traversal has no pruning predicate and descends at least to level 1
Unpruned == query.tile_filter = NoFilter /\ query.depth >= 1

\* no position is yielded twice
NoRepeat == \A i, j \in 1..Len(query.yielded) :
                query.yielded[i].pos = query.yielded[j].pos => i = j

\* the positions of level d among the yielded tiles
YieldedAt(d) == {query.yielded[i].pos : i \in {j \in 1..Len(query.yielded) : query.yielded[j].pos.n = d}}

\* C11: with bottom_only and no predicate the traversal to depth D >= 1
\* yields 4^D tiles, all of depth D, none twice, and every position of level D
C11_BottomOnlyComplete ==
    (pc = "exhausted" /\ Unpruned /\ query.bottom_only) =>
        /\ Len(query.yielded) = Pow4(query.depth)
        /\ \A i \in 1..Len(query.yielded) : query.yielded[i].pos.n = query.depth
        /\ NoRepeat
        /\ YieldedAt(query.depth) = Level(query.depth)

C11_Witness ==
    /\ pc = "exhausted"
    /\ Unpruned
    /\ query.bottom_only
    /\ query.depth = 2
    /\ Len(query.yielded) = 16

\* C12: without bottom_only and without a predicate the traversal to depth
\* D >= 1 yields, for every level d of 1..D, the 4^d positions of the level,
\* each once, and no tile of level 0
C12_EveryLevelOnce ==
    (pc = "exhausted" /\ Unpruned /\ ~query.bottom_only) =>
        /\ \A d \in 1..query.depth :
             /\ YieldedAt(d) = Level(d)
             /\ Cardinality({i \in 1..Len(query.yielded) : query.yielded[i].pos.n = d}) = Pow4(d)
        /\ NoRepeat
        /\ \A i \in 1..Len(query.yielded) : query.yielded[i].pos.n \in 1..query.depth

C12_Witness ==
    /\ pc = "exhausted"
    /\ Unpruned
    /\ ~query.bottom_only
    /\ query.depth = 2
    /\ Len(query.yielded) = 20
    /\ query.yielded[20].pos = Pos(1, 0, 1)

\* the ancestor of level 1 of a position of level 1 or deeper
BaseOf(p) == Pos(1, p.x \div (2 ^ (p.n - 1)), p.y \div (2 ^ (p.n - 1)))

\* C34: the base tiles (1,0,0), (1,1,0), (1,1,1), (1,0,1) have the flags
\* true, false, true, false, _div4 hands the flag of a tile to its four
\* children, and a yielded tile has increasing = true exactly when its
\* ancestor of level 1 is (1,0,0) or (1,1,1)
C34_IncreasingInherited ==
    /\ level1_todo = << [pos |-> Pos(1, 0, 0), increasing |-> TRUE],
                        [pos |-> Pos(1, 1, 0), increasing |-> FALSE],
                        [pos |-> Pos(1, 1, 1), increasing |-> TRUE],
                        [pos |-> Pos(1, 0, 1), increasing |-> FALSE] >>
    /\ \A i \in 1..Len(query.yielded) :
         LET t == query.yielded[i]
         IN  /\ t.increasing <=> BaseOf(t.pos) \in {Pos(1, 0, 0), Pos(1, 1, 1)}
             /\ \A k \in 1..4 : _div4(t)[k].increasing = t.increasing

C34_Witness ==
    /\ pc = "exhausted"
    /\ Unpruned
    /\ query.bottom_only
    /\ query.depth = 2
    /\ Len(query.yielded) = 16
    /\ query.yielded[1] = [pos |-> Pos(2, 0, 0), increasing |-> TRUE]
    /\ query.yielded[5] = [pos |-> Pos(2, 2, 0), increasing |-> FALSE]
    /\ query.yielded[9] = [pos |-> Pos(2, 2, 2), increasing |-> TRUE]
    /\ query.yielded[16] = [pos |-> Pos(2, 1, 3), increasing |-> FALSE]

\* C13: at every moment, a descendant of a yielded tile that the traversal
\* yields at all was yielded before that tile: none is yielded after it and
\* none is still to come
C13_DescendantsFirst ==
    /\ \A i, j \in 1..Len(query.yielded) :
         (i # j /\ Under(query.yielded[j].pos, query.yielded[i].pos)) => j < i
    /\ \A i \in 1..Len(query.yielded), k \in 1..Len(todo) :
         ~Under(todo[k].pos, query.yielded[i].pos)

C13_Witness ==
    /\ pc = "exhausted"
    /\ query.tile_filter.kind = "quad"
    /\ query.tile_filter.layer = 2
    /\ query.depth = 2
    /\ ~query.bottom_only
    /\ Len(query.yielded) = 16
    /\ query.yielded[4].pos = Pos(1, 0, 0)

\* C14: nothing at or below a rejected tile is yielded, tile_filter is not
\* called on anything below a rejected tile, and a predicate that rejects
\* every tile makes the traversal yield nothing
C14_RejectedSubtreeUntouched ==
    /\ \A t \in query.asked :
         ~TileFilter(query.tile_filter, t) =>
            /\ \A i \in 1..Len(query.yielded) : ~Under(query.yielded[i].pos, t.pos)
            /\ \A k \in 1..Len(todo) : ~Under(todo[k].pos, t.pos)
            /\ \A u \in query.asked : Under(u.pos, t.pos) => u = t
    /\ \A i \in 1..Len(query.yielded) :
         \A a \in PosUpTo(query.yielded[i].pos.n) :
            (a.n >= 1 /\ Under(query.yielded[i].pos, a))
              => \E t \in query.asked : t.pos = a /\ TileFilter(query.tile_filter, t)
    /\ query.tile_filter.kind = "all" => (query.yielded = << >> /\ todo = << >>)

C14_Witness ==
    /\ pc = "exhausted"
    /\ query.tile_filter.kind = "quad"
    /\ query.tile_filter.layer = 1
    /\ query.depth = 2
    /\ ~query.bottom_only
    /\ Len(query.yielded) = 15
    /\ Cardinality(query.asked) = 16

C14_WitnessRejectAll ==
    /\ pc = "exhausted"
    /\ query.tile_filter.kind = "all"
    /\ query.depth = 2
    /\ Cardinality(query.asked) = 4

-----------------------------------------------------------------------------
(* The bounding-box predicate minmax_tile_filter(ra_range, dec_range).     *)
(* Angles are whole multiples of 45 degrees, so that pi is 4.              *)

Pi == 4

\* the table level1 of the corners of the four tiles of level 1:
\* (longitude, latitude) of the upper left, upper right, lower right and
\* lower left corner
level1 ==
    << << <<0, 0 - 2>>, <<2, 0>>, <<0, 2>>, <<4, 0>> >>,
       << <<2, 0>>, <<0, 0 - 2>>, <<0, 0>>, <<0, 2>> >>,
       << <<0, 2>>, <<0, 0>>, <<0, 0 - 2>>, <<6, 0>> >>,
       << <<4, 0>>, <<0, 2>>, <<6, 0>>, <<0, 0 - 2>> >> >>

Abs(v) == IF v < 0 THEN 0 - v ELSE v

RECURSIVE SeqMin(_)
SeqMin(q) == IF Len(q) = 1 THEN q[1]
             ELSE LET m == SeqMin(Tail(q)) IN IF q[1] <= m THEN q[1] ELSE m

RECURSIVE SeqMax(_)
SeqMax(q) == IF Len(q) = 1 THEN q[1] ELSE Max(q[1], SeqMax(Tail(q)))

\* the longitudes of the corners that are not poles, brought into [0, 2 pi)
CornerRas(c) ==
    LET off == SelectSeq(c, LAMBDA y : 2 * Abs(y[2]) # Pi)
    IN  [i \in 1..Len(off) |-> IF off[i][1] < 0 THEN off[i][1] + 2 * Pi ELSE off[i][1]]

CornerDecs(c) == [i \in 1..Len(c) |-> c[i][2]]

\* minmax_tile_filter(ra_range, dec_range)(tile)
is_overlap(ra_range, dec_range, tile) ==
    LET c == tile.corners
        minRa == SeqMin(CornerRas(c))
        maxRa == SeqMax(CornerRas(c))
        minDec == SeqMin(CornerDecs(c))
        maxDec == SeqMax(CornerDecs(c))
    IN  IF dec_range[1] > maxDec \/ dec_range[2] < minDec THEN FALSE
        ELSE IF (maxRa - minRa) > Pi
             THEN IF ra_range[1] < maxRa /\ ra_range[2] > minRa THEN FALSE ELSE TRUE
             ELSE IF ra_range[1] > maxRa \/ ra_range[2] < minRa THEN FALSE ELSE TRUE

Ranges(lo, hi) == {<<a, b>> : a \in lo..hi, b \in lo..hi} \cap {r \in (lo..hi) \X (lo..hi) : r[1] <= r[2]}

InitFilter ==
    /\ Idle
    /\ todo = << >>
    /\ pc = "filter"
    /\ \E i \in 1..4, ra \in Ranges(0, 2 * Pi), dec \in Ranges(0 - (Pi \div 2), Pi \div 2) :
         query = [tile |-> [pos |-> level1_todo[i].pos, corners |-> level1[i],
                            increasing |-> level1_todo[i].increasing],
                  ra_range |-> ra, dec_range |-> dec, accepted |-> FALSE]

\* the traversal asks the predicate about the tile
ApplyFilter ==
    /\ pc = "filter"
    /\ query' = [query EXCEPT !.accepted = is_overlap(query.ra_range, query.dec_range, query.tile)]
    /\ pc' = "filtered"
    /\ UNCHANGED <<args, disk, dirs, todo, im, node, parents, cur, resume, emitted, num, sampled,
                   registered, twice, aggregated, mergeLog, failed>>

SpecFilter == InitFilter /\ [][ApplyFilter]_vars

\* the closed intervals [a0, a1] and [b0, b1] meet
Meet(a0, a1, b0, b1) == a0 <= b1 /\ b0 <= a1

\* the latitudes of the corners miss dec_range
LatMiss ==
    ~Meet(query.dec_range[1], query.dec_range[2],
          SeqMin(CornerDecs(query.tile.corners)), SeqMax(CornerDecs(query.tile.corners)))

\* the longitudes of the tile miss ra_range: the tile spans the arc from its
\* smallest to its largest corner longitude, or, when that arc is longer than
\* pi, the arc from the largest through 0 to the smallest
LonMiss ==
    LET lo == SeqMin(CornerRas(query.tile.corners))
        hi == SeqMax(CornerRas(query.tile.corners))
    IN  IF hi - lo > Pi
        THEN ~(\/ Meet(query.ra_range[1], query.ra_range[2], hi, 2 * Pi)
               \/ Meet(query.ra_range[1], query.ra_range[2], 0, lo))
        ELSE ~Meet(query.ra_range[1], query.ra_range[2], lo, hi)

\* C8: minmax_tile_filter rejects a tile exactly when the latitudes of its
\* corners miss dec_range or its longitudes, taken across 0 for a tile that
\* wraps, miss ra_range
C8_RejectsOnlyOutside == pc = "filtered" => (~query.accepted <=> (LatMiss \/ LonMiss))

-----------------------------------------------------------------------------
(* The position algebra of the pyramid module (src/toasty/pyramid.py), the *)
(* formation of tile paths, the tile counts of both modules and the        *)
(* sub-region predicate, called on their own.                              *)

\* pos_parent: ValueError for a position of depth < 1
pos_parent(pos) ==
    IF pos.n < 1 THEN "ValueError"
    ELSE <<Pos(pos.n - 1, pos.x \div 2, pos.y \div 2), pos.x % 2, pos.y % 2>>

\* pos_children with the upper right and the lower left child exchanged
pos_children_swapped(pos) ==
    LET n == pos.n + 1
        x == pos.x * 2
        y == pos.y * 2
    IN  <<Pos(n, x, y), Pos(n, x, y + 1), Pos(n, x + 1, y), Pos(n, x + 1, y + 1)>>

pos_children(pos) ==
    LET n == pos.n + 1
        x == pos.x * 2
        y == pos.y * 2
    IN  <<Pos(n, x, y), Pos(n, x + 1, y), Pos(n, x, y + 1), Pos(n, x + 1, y + 1)>>

\* depth2tiles of the pyramid module
pyramid_depth2tiles(d) == (Pow4(d + 1) - 1) \div 3

\* _postfix_pos that yields a position before its children
RECURSIVE _prefix_pos(_, _)
_prefix_pos(pos, d) ==
    IF pos.n > d THEN << >>
    ELSE LET c == pos_children(pos)
         IN  <<pos>> \o _prefix_pos(c[1], d) \o _prefix_pos(c[2], d)
             \o _prefix_pos(c[3], d) \o _prefix_pos(c[4], d)

\* _postfix_pos(pos, depth): the positions it yields, in order
RECURSIVE _postfix_pos(_, _)
_postfix_pos(pos, d) ==
    IF pos.n > d THEN << >>
    ELSE LET c == pos_children(pos)
         IN  _postfix_pos(c[1], d) \o _postfix_pos(c[2], d)
             \o _postfix_pos(c[3], d) \o _postfix_pos(c[4], d) \o <<pos>>

generate_pos(d) == _postfix_pos(Pos(0, 0, 0), d)

\* PyramidIO.tile_path: the path below base_dir
tile_path(pos, extension) ==
    [dir |-> <<pos.n, pos.y>>, file |-> <<pos.y, pos.x>>, ext |-> extension]

DecimalDigit == <<"0", "1", "2", "3", "4", "5", "6", "7", "8", "9">>

\* '%i' % v, str(v): the decimal digits of v
RECURSIVE Decimal(_)
Decimal(v) ==
    IF v < 0 THEN "-" \o Decimal(0 - v)
    ELSE IF v < 10 THEN DecimalDigit[v + 1]
    ELSE Decimal(v \div 10) \o DecimalDigit[(v % 10) + 1]

\* the text of a path: os.path.join(d1, d2, '%i_%i.ext' % (f1, f2))
Render(pth, ext) ==
    Decimal(pth.dir[1]) \o "/" \o Decimal(pth.dir[2]) \o "/"
    \o Decimal(pth.file[1]) \o "_" \o Decimal(pth.file[2]) \o "." \o ext

\* the positions the functions are called with: the pyramid down to
\* MaxDepth, and positions two levels deeper whose numbers have two digits
PyramidPositions ==
    PosUpTo(MaxDepth)
    \cup {Pos(MaxDepth + 2, x, y) : x \in {1, 2, 11, 12}, y \in {1, 2, 11, 12}}

PairsOf(S) == {<<a, b>> : a \in S, b \in S}

\* the depths depth2tiles is called with
MaxCountDepth == 2 * MaxDepth

InitPyramid ==
    /\ Idle
    /\ todo = << >>
    /\ pc = "call"
    /\ \/ \E p \in PyramidPositions, i \in 0..3 :
            query = [fn |-> "pos_children", via |-> "pos_children", p |-> p, i |-> i,
                     args |-> <<p>>, ext |-> "", out |-> << >>]
       \/ \E p \in PyramidPositions :
            query = [fn |-> "pos_parent", via |-> "pos_parent", p |-> p, i |-> 0,
                     args |-> <<p>>, ext |-> "", out |-> << >>]
       \/ \E a \in PairsOf(PyramidPositions) :
            query = [fn |-> "iter_tiles", via |-> "iter_tiles", p |-> a[1], i |-> 0,
                     args |-> a, ext |-> "png", out |-> << >>]
       \/ \E a \in PairsOf(PyramidPositions), e \in {"png", "npy"} :
            query = [fn |-> "tile_path", via |-> "tile_path", p |-> a[1], i |-> 0,
                     args |-> a, ext |-> e, out |-> << >>]
       \/ \E d \in 0..MaxCountDepth :
            query = [fn |-> "depth2tiles", via |-> "depth2tiles", p |-> Pos(0, 0, 0), i |-> d,
                     args |-> <<d>>, ext |-> "", out |-> << >>]
       \/ \E d \in 0..MaxDepth :
            query = [fn |-> "generate_pos", via |-> "generate_pos", p |-> Pos(0, 0, 0), i |-> d,
                     args |-> generate_pos(d), ext |-> "", out |-> << >>]
       \/ \E a \in PairsOf(PosUpTo(MaxDepth)) :
            query = [fn |-> "nxy_tile_filter", via |-> "nxy_tile_filter", p |-> a[1], i |-> 0,
                     args |-> <<a[2]>>, ext |-> "", out |-> << >>]

\* pos_children(p), then its element i is handed on to pos_parent
PosChildren ==
    /\ pc = "call"
    /\ query.fn = "pos_children"
    /\ query' = [query EXCEPT !.fn = "pos_parent",
                              !.args = <<pos_children(Head(query.args))[query.i + 1]>>]
    /\ UNCHANGED <<args, disk, dirs, todo, pc, im, node, parents, cur, resume, emitted, num,
                   sampled, registered, twice, aggregated, mergeLog, failed>>

\* pos_parent(pos)
PosParent ==
    /\ pc = "call"
    /\ query.fn = "pos_parent"
    /\ LET got == pos_parent(Head(query.args))
       IN  IF got = "ValueError"
           THEN /\ pc' = "ValueError"
                /\ UNCHANGED query
           ELSE /\ pc' = "returned"
                /\ query' = [query EXCEPT !.args = << >>, !.out = <<got>>]
    /\ UNCHANGED <<args, disk, dirs, todo, im, node, parents, cur, resume, emitted, num,
                   sampled, registered, twice, aggregated, mergeLog, failed>>

\* the paths iter_tiles and _trickle_up form for one position: the path of an
\* emission of _trickle_up, of a base-level emission, of the merge-only read
\* and of the restart check
FormPaths ==
    /\ pc = "call"
    /\ query.fn = "iter_tiles"
    /\ LET pos == Head(query.args)
           texts == {Render(trickle_pth(pos), "png"), Render(base_pth(pos), "png"),
                     Render(read_pth(pos), "png"), Render(restart_pth(pos), "png")}
       IN  /\ query' = [query EXCEPT !.args = Tail(@),
                                     !.out = Append(@, [pos |-> pos, texts |-> texts])]
           /\ pc' = IF Len(query.args) = 1 THEN "returned" ELSE "call"
    /\ UNCHANGED <<args, disk, dirs, todo, im, node, parents, cur, resume, emitted, num,
                   sampled, registered, twice, aggregated, mergeLog, failed>>

\* PyramidIO.tile_path(pos, extension): it makes the directory of the tile,
\* which may exist, and returns the path; another failure of os.makedirs is
\* raised
TilePath ==
    /\ pc = "call"
    /\ query.fn = "tile_path"
    /\ LET pos == Head(query.args)
           pth == tile_path(pos, query.ext)
       IN  \E made \in (IF pth.dir \in dirs THEN {"EEXIST"} ELSE {"ok", "EACCES"}) :
             IF made = "EACCES"
             THEN /\ pc' = "OSError"
                  /\ UNCHANGED <<dirs, query>>
             ELSE /\ dirs' = dirs \cup {pth.dir}
                  /\ query' = [query EXCEPT !.args = Tail(@),
                                            !.out = Append(@, [pos |-> pos,
                                                               texts |-> {Render(pth, pth.ext)}])]
                  /\ pc' = IF Len(query.args) = 1 THEN "returned" ELSE "call"
    /\ UNCHANGED <<args, disk, todo, im, node, parents, cur, resume, emitted, num,
                   sampled, registered, twice, aggregated, mergeLog, failed>>

\* depth2tiles(depth) of the toast module and of the pyramid module
Depth2Tiles ==
    /\ pc = "call"
    /\ query.fn = "depth2tiles"
    /\ query' = [query EXCEPT !.out = <<depth2tiles(query.i), pyramid_depth2tiles(query.i)>>]
    /\ pc' = "returned"
    /\ UNCHANGED <<args, disk, dirs, todo, im, node, parents, cur, resume, emitted, num,
                   sampled, registered, twice, aggregated, mergeLog, failed>>

\* the consumer of generate_pos(depth) takes the next position; the generator
\* is exhausted after the last one
GeneratePos ==
    /\ pc = "call"
    /\ query.fn = "generate_pos"
    /\ query' = [query EXCEPT !.args = Tail(@), !.out = Append(@, Head(query.args))]
    /\ pc' = IF Len(query.args) = 1 THEN "returned" ELSE "call"
    /\ UNCHANGED <<args, disk, dirs, todo, im, node, parents, cur, resume, emitted, num,
                   sampled, registered, twice, aggregated, mergeLog, failed>>

\* nxy_tile_filter(layer, tx, ty)(tile) for the region query.p and a tile at
\* the position in query.args; a ValueError of is_subtile is not caught
NxyTileFilter ==
    /\ pc = "call"
    /\ query.fn = "nxy_tile_filter"
    /\ LET f == [kind |-> "nxy", layer |-> query.p.n, tx |-> query.p.x, ty |-> query.p.y]
           tile == Tile(Head(query.args), TRUE)
       IN  IF tile.pos.n <= query.p.n /\ is_subtile(query.p, tile.pos) = "ValueError"
           THEN /\ pc' = "ValueError"
                /\ UNCHANGED query
           ELSE /\ pc' = "returned"
                /\ query' = [query EXCEPT !.out = <<nxy_tile_filter(f, tile)>>]
    /\ UNCHANGED <<args, disk, dirs, todo, im, node, parents, cur, resume, emitted, num,
                   sampled, registered, twice, aggregated, mergeLog, failed>>

NextPyramid ==
    PosChildren \/ PosParent \/ FormPaths \/ TilePath \/ Depth2Tiles \/ GeneratePos
    \/ NxyTileFilter

SpecPyramid == InitPyramid /\ [][NextPyramid]_vars

\* the text n/y/y_x.ext for the position pos
Scheme(pos, ext) ==
    Decimal(pos.n) \o "/" \o Decimal(pos.y) \o "/" \o Decimal(pos.y) \o "_" \o Decimal(pos.x)
    \o "." \o ext

\* C17: every path formed for the position (n, x, y), by iter_tiles, by
\* _trickle_up and by PyramidIO.tile_path, is n/y/y_x.ext, and the paths of
\* two different positions differ
C17_PathScheme ==
    query.via \in {"iter_tiles", "tile_path"} =>
        /\ \A k \in 1..Len(query.out) :
             query.out[k].texts = {Scheme(query.out[k].pos, query.ext)}
        /\ \A k, l \in 1..Len(query.out) :
             query.out[k].pos # query.out[l].pos
               => query.out[k].texts \cap query.out[l].texts = {}

C17_Witness ==
    /\ pc = "returned"
    /\ query.via = "iter_tiles"
    /\ Len(query.out) = 2
    /\ query.out[1].pos = Pos(MaxDepth + 2, 1, 12)
    /\ query.out[2].pos = Pos(MaxDepth + 2, 11, 2)

\* C20: pos_parent of the child i of p, as pos_children lists them, is p with
\* the quadrant (i mod 2, i div 2)
C20_ChildParentRoundTrip ==
    /\ query.via = "pos_children" => pc # "ValueError"
    /\ (query.via = "pos_children" /\ pc = "returned") =>
          query.out = <<<<query.p, query.i % 2, query.i \div 2>>>>

C20_Witness ==
    /\ pc = "returned"
    /\ query.via = "pos_children"
    /\ query.p = Pos(2, 1, 3)
    /\ query.i = 2
    /\ query.out = <<<<Pos(2, 1, 3), 0, 1>>>>

\* 1 + 4 + ... + 4^d
RECURSIVE TileCount(_)
TileCount(d) == IF d <= 0 THEN 1 ELSE 4 * TileCount(d - 1) + 1

\* C21: depth2tiles(d) is the sum of the 4^i for i = 0..d, which is
\* (4^(d+1) - 1) / 3 without remainder (1, 5, 21 for d = 0, 1, 2), in the
\* toast module and in the pyramid module alike
C21_TileCount ==
    (query.via = "depth2tiles" /\ pc = "returned") =>
        /\ query.out = <<TileCount(query.i), TileCount(query.i)>>
        /\ 3 * query.out[1] = Pow4(query.i + 1) - 1
        /\ (Pow4(query.i + 1) - 1) % 3 = 0
        /\ query.i = 0 => query.out[1] = 1
        /\ query.i = 1 => query.out[1] = 5
        /\ query.i = 2 => query.out[1] = 21

C21_Witness ==
    /\ pc = "returned"
    /\ query.via = "depth2tiles"
    /\ query.i = 2
    /\ query.out = <<21, 21>>

\* C22: generate_pos(depth) yields every position of the levels 0..depth
\* once, depth2tiles(depth) of them and the root last, and the four children
\* of a yielded position above the level depth were yielded before it
C22_GeneratePosPostfix ==
    query.via = "generate_pos" =>
        LET out == query.out
        IN  /\ \A k, l \in 1..Len(out) : k # l => out[k] # out[l]
            /\ \A k \in 1..Len(out) :
                  out[k].n < query.i =>
                     \A a, b \in 0..1 :
                        \E j \in 1..(k - 1) :
                           out[j] = Pos(out[k].n + 1, 2 * out[k].x + a, 2 * out[k].y + b)
            /\ pc = "returned" =>
                  /\ {out[k] : k \in 1..Len(out)} = PosUpTo(query.i)
                  /\ Len(out) = TileCount(query.i)
                  /\ out[Len(out)] = Pos(0, 0, 0)

C22_Witness ==
    /\ pc = "returned"
    /\ query.via = "generate_pos"
    /\ query.i = 2
    /\ Len(query.out) = 21
    /\ query.out[5] = Pos(1, 0, 0)

-----------------------------------------------------------------------------
(* The default merge on its own.                                           *)

\* an image with the given rows of pixels
Image(rows) == [data |-> TRUE, px |-> rows]

\* the mosaics _default_merge is called with: every 2 x 2 mosaic of a few
\* pixel values of an unsigned 8-bit type, every 2 x 4 and 4 x 2 mosaic of
\* three values, and the 4 x 4 mosaics of four homogeneous 2 x 2 blocks
Mosaics ==
    {Image(<<<<a, b>>, <<c, d>>>>) : a \in {0, 1, 2, 127, 254, 255}, b \in {0, 1, 2, 127, 254, 255},
                                   c \in {0, 1, 2, 127, 254, 255}, d \in {0, 1, 2, 127, 254, 255}}
    \cup {Image(<<r1, r2>>) : r1 \in [1..4 -> {0, 3, 255}], r2 \in [1..4 -> {0, 3, 255}]}
    \cup {Image(<<<<r[1], r[2]>>, <<r[3], r[4]>>, <<r[5], r[6]>>, <<r[7], r[8]>>>>) :
            r \in [1..8 -> {0, 3, 255}]}
    \cup {Mosaic(Full(<<2, 2>>, a), Full(<<2, 2>>, b), Full(<<2, 2>>, c), Full(<<2, 2>>, d)) :
            a \in {10, 20, 30, 40, 255}, b \in {10, 20, 30, 40, 255},
            c \in {10, 20, 30, 40, 255}, d \in {10, 20, 30, 40, 255}}

InitMerge ==
    /\ Idle
    /\ todo = << >>
    /\ pc = "merge_call"
    /\ \E m \in Mosaics : query = [mosaic |-> m, out |-> None]

\* _default_merge(mosaic)
DefaultMerge ==
    /\ pc = "merge_call"
    /\ query' = [query EXCEPT !.out = _default_merge(query.mosaic)]
    /\ pc' = "merged"
    /\ UNCHANGED <<args, disk, dirs, todo, im, node, parents, cur, resume, emitted, num,
                   sampled, registered, twice, aggregated, mergeLog, failed>>

SpecMerge == InitMerge /\ [][DefaultMerge]_vars

\* the mosaic is made of four homogeneous 2 x 2 blocks
FourBlocks(m) ==
    /\ Len(m.px) = 4
    /\ Len(m.px[1]) = 4
    /\ \A r \in 1..4, c \in 1..4 : m.px[r][c] = m.px[2 * ((r + 1) \div 2)][2 * ((c + 1) \div 2)]

\* C19: the default merge of a 2H x 2W mosaic is the H x W image whose pixel
\* is the mean of the four pixels of its 2 x 2 block, cut to the element type;
\* four homogeneous blocks a, b, c, d give [[a, b], [c, d]]
C19_DefaultMergeIsBlockMean ==
    pc = "merged" =>
        LET m == query.mosaic.px
            o == query.out.px
        IN  /\ query.out.data
            /\ 2 * Len(o) = Len(m)
            /\ \A i \in 1..Len(o) :
                 /\ 2 * Len(o[i]) = Len(m[1])
                 /\ \A j \in 1..Len(o[i]) :
                      /\ o[i][j] \in 0..255
                      /\ 4 * o[i][j] <= m[2*i - 1][2*j - 1] + m[2*i][2*j - 1]
                                         + m[2*i - 1][2*j] + m[2*i][2*j]
                      /\ 4 * (o[i][j] + 1) > m[2*i - 1][2*j - 1] + m[2*i][2*j - 1]
                                             + m[2*i - 1][2*j] + m[2*i][2*j]
            /\ FourBlocks(query.mosaic) => o = <<<<m[1][1], m[1][3]>>, <<m[3][1], m[3][3]>>>>

C19_Witness ==
    /\ pc = "merged"
    /\ query.mosaic = Mosaic(Full(<<2, 2>>, 10), Full(<<2, 2>>, 20),
                             Full(<<2, 2>>, 30), Full(<<2, 2>>, 40))
    /\ query.out.px = <<<<10, 20>>, <<30, 40>>>>

-----------------------------------------------------------------------------
(* toast: the orchestrator drives iter_tiles and saves every pair.         *)

\* the most tiles whose image fails to be written in one run
MaxFaults == 1

InitToast ==
    \E d \in 0..MaxDepth, m \in {"default", "none"}, blo \in BOOLEAN, rst \in BOOLEAN :
      \E files \in (IF rst THEN RestartFiles(d) ELSE {{}}) :
        Start(d, IF blo THEN "default" ELSE m, blo, 0, NoFilter,
              [kind |-> "func", hole |-> NoRegion, files |-> {}], rst, files)

\* the body of the for loop of toast for the pair it was handed: count it,
\* make its directory unless it exists, save the image
ToastBody ==
    /\ pc = "yield"
    /\ num' = num + 1
    /\ emitted' = Append(emitted, cur)
    /\ \E made \in (IF cur.pth.dir \in dirs THEN {"exists"}
                    ELSE {"ok", "FileExistsError", "OSError"}) :
         IF made = "OSError"
         THEN /\ pc' = "OSError"
              /\ UNCHANGED <<disk, dirs, failed>>
         ELSE /\ dirs' = dirs \cup {cur.pth.dir}
              /\ pc' = resume
              /\ \E saved \in (IF Cardinality(failed) < MaxFaults THEN {"ok", "error"}
                               ELSE {"ok"}) :
                   IF saved = "ok"
                   THEN /\ disk' = disk \cup {cur.pth}
                        /\ UNCHANGED failed
                   ELSE /\ failed' = failed \cup {cur.pth}
                        /\ UNCHANGED disk
    /\ UNCHANGED <<args, todo, im, node, parents, cur, resume, sampled, registered, twice,
                   aggregated, mergeLog, query>>

NextToast == NextTile \/ TrickleEnter \/ TrickleRegister \/ TrickleMerge \/ ToastBody

SpecToast == InitToast /\ [][NextToast]_vars

\* C9: a failure to make the directory of a tile or to write its image skips
\* that tile only: the run is not aborted and every other emitted tile is
\* written
C9_SkipAndContinue ==
    /\ pc # "OSError"
    /\ \A i \in 1..Len(emitted) : emitted[i].pth \notin failed => emitted[i].pth \in disk

====
